---------------------------- MODULE Spec2Model ----------------------------
(***************************************************************************)
(* Model of libethereum/ChainParams.cpp: the genesis configuration value   *)
(* (ChainParams), its functional update steps (loadConfig, loadGenesis,    *)
(* loadGenesisState), the memoized state root, the seal back-fill and the  *)
(* genesis block assembler with its inverse populateFromGenesis.           *)
(*                                                                         *)
(* Byte strings are sequences over 0..255.  Hashes are byte strings of     *)
(* their fixed width.  RLP is modelled byte for byte.                      *)
(***************************************************************************)
EXTENDS Integers, Sequences, FiniteSets, TLC

(***************************************************************************)
(* Let(F, e) is F(e) with e evaluated once: TLC passes operator arguments  *)
(* by name, a bound variable holds a value.                                *)
(***************************************************************************)
Let(F(_), e) == CHOOSE r \in { F(v) : v \in {e} } : TRUE

(***************************************************************************)
(* Byte-string helpers (libdevcore/CommonData, FixedHash).                 *)
(***************************************************************************)
Zeros(n) == [k \in 1..n |-> 0]

IsZero(h) == \A k \in 1..Len(h) : h[k] = 0

\* h256 / h160 / h64 / h2048 widths in bytes
HashLen == 32
AddressLen == 20
NonceLen == 8
BloomLen == 256

\* a hash of width n whose last byte is b (all other bytes zero)
HashOf(n, b) == [k \in 1..n |-> IF k = n THEN b ELSE 0]

RECURSIVE ToBigEndian(_)
\* toCompactBigEndian: minimal big-endian bytes, zero is the empty string
ToBigEndian(n) ==
    IF n = 0 THEN << >> ELSE Append(ToBigEndian(n \div 256), n % 256)

RECURSIVE FromBigEndian(_)
\* fromBigEndian<u256>
FromBigEndian(b) ==
    IF Len(b) = 0 THEN 0
    ELSE FromBigEndian(SubSeq(b, 1, Len(b) - 1)) * 256 + b[Len(b)]

\* fromHex: a hex string (its digits after the 0x prefix, each 0..15) to
\* bytes; an odd number of digits makes the first digit a byte of its own
FromHex(d) ==
    IF Len(d) % 2 = 1
    THEN [k \in 1..(Len(d) + 1) \div 2 |->
            IF k = 1 THEN d[1] ELSE d[2 * k - 2] * 16 + d[2 * k - 1]]
    ELSE [k \in 1..Len(d) \div 2 |-> d[2 * k - 1] * 16 + d[2 * k]]

\* FixedHash(string): fromHex, kept only when the width matches
\* (FailIfDifferent leaves the hash zero otherwise)
HashFromHex(d, n) ==
    IF Len(FromHex(d)) = n THEN FromHex(d) ELSE Zeros(n)

\* u256(fromBigEndian<u256>(fromHex(s)))
IntFromHex(d) == FromBigEndian(FromHex(d))

\* toHex: the hex digits of a byte string (used to write the inputs)
ToHex(b) ==
    [k \in 1..2 * Len(b) |->
        IF k % 2 = 1 THEN b[(k + 1) \div 2] \div 16 ELSE b[k \div 2] % 16]

(***************************************************************************)
(* RLP encoding (libdevcore/RLP).                                          *)
(***************************************************************************)
\* length prefix of an item with payload length n: base is 128 for data
\* and 192 for lists
RlpPrefix(base, n) ==
    IF n < 56 THEN << base + n >>
    ELSE << base + 55 + Len(ToBigEndian(n)) >> \o ToBigEndian(n)

\* rlp of a byte string (also of a fixed hash: its bytes, leading zeros kept)
RlpBytes(b) ==
    IF Len(b) = 1 /\ b[1] < 128 THEN b ELSE RlpPrefix(128, Len(b)) \o b

\* rlp of an unsigned integer
RlpInt(n) == RlpBytes(ToBigEndian(n))

RLPEmptyList == << 192 >>

\* a list closed by RLPStream::noteAppended: its payload under a list prefix
RlpList(payload) == Let(LAMBDA v : RlpPrefix(192, Len(v)) \o v, payload)

(***************************************************************************)
(* RLP decoding (libdevcore/RLP): only what BlockHeader and                *)
(* populateFromGenesis read.                                               *)
(***************************************************************************)
IsList(item) == item[1] >= 192

\* number of prefix bytes of the item starting with byte t
PrefixLen(t) ==
    IF t < 128 THEN 0
    ELSE IF t < 184 THEN 1
    ELSE IF t < 192 THEN 1 + (t - 183)
    ELSE IF t < 248 THEN 1
    ELSE 1 + (t - 247)

\* payload length of the item at the head of b
PayloadLen(b) ==
    IF b[1] < 128 THEN 1
    ELSE IF b[1] < 184 THEN b[1] - 128
    ELSE IF b[1] < 192 THEN FromBigEndian(SubSeq(b, 2, 1 + (b[1] - 183)))
    ELSE IF b[1] < 248 THEN b[1] - 192
    ELSE FromBigEndian(SubSeq(b, 2, 1 + (b[1] - 247)))

\* RLP::payload()
Payload(item) == SubSeq(item, PrefixLen(item[1]) + 1, Len(item))

RECURSIVE Items(_)
\* the raw encodings (RLP::data()) of the items laid end to end in b
Items(b) ==
    Let(LAMBDA v :
          IF Len(v) = 0 THEN << >>
          ELSE Let(LAMBDA n : << SubSeq(v, 1, n) >> \o Items(SubSeq(v, n + 1, Len(v))),
                   PrefixLen(v[1]) + PayloadLen(v)),
        b)

\* RLP::operator[] over a list: its items, raw; a data item has none
ListItems(item) == IF IsList(item) THEN Items(Payload(item)) ELSE << >>

\* RLP::toInt
ToInt(item) == FromBigEndian(Payload(item))

(***************************************************************************)
(* Collaborators of ChainParams.cpp: the secure trie, the account-map      *)
(* parser, the block header and the seal-engine registrar.                 *)
(***************************************************************************)
\* sha3(rlp(<<>>)), the hash of an empty list of uncles
EmptyListSHA3 ==
    << 29, 204, 77, 232, 222, 199, 93, 122, 171, 133, 181, 103, 182, 204, 212, 26,
       211, 18, 69, 27, 148, 138, 116, 19, 240, 161, 66, 253, 64, 212, 147, 71 >>

\* sha3(rlp("")), the root of an empty trie
EmptyTrie ==
    << 86, 232, 31, 23, 27, 204, 85, 166, 255, 131, 69, 230, 146, 192, 248, 110,
       91, 72, 224, 27, 153, 108, 173, 192, 1, 98, 47, 181, 227, 99, 180, 33 >>

\* LogBloom(): the zero 2048-bit bloom filter
LogBloom == Zeros(BloomLen)

\* BlockHeader::BasicFields
BasicFields == 13

RECURSIVE Digest(_)
\* a number standing for the content of an account map: the trie is opaque,
\* deterministic and independent of the order of insertion
Digest(m) ==
    IF DOMAIN m = {} THEN 0
    ELSE LET a == CHOOSE a \in DOMAIN m : TRUE
         IN  (a[AddressLen] * 16 + m[a].balance + 1
              + Digest([b \in DOMAIN m \ {a} |-> m[b]])) % 256

\* commit(genesisState, state); state.root(): never the zero hash
TrieRoot(m) ==
    IF DOMAIN m = {} THEN EmptyTrie
    ELSE [k \in 1..HashLen |-> IF k = 1 THEN 170
                               ELSE IF k = HashLen THEN Digest(m) ELSE 0]

\* jsonToAccountMap: an accounts object maps address strings (hex digits)
\* to descriptors with a balance (hex digits)
jsonToAccountMap(accounts) ==
    LET addrs == { HashFromHex(k, AddressLen) : k \in DOMAIN accounts }
    IN  [a \in addrs |->
            LET k == CHOOSE k \in DOMAIN accounts : HashFromHex(k, AddressLen) = a
            IN  [balance |-> IntFromHex(accounts[k].balance)]]

\* SealEngineRegistrar::create(name): the engine's sealFields() and sealRLP()
EngineSealFields(name) == IF name = "Ethash" THEN 2 ELSE 0

EngineSealRLP(name) ==
    IF name = "Ethash" THEN RlpBytes(Zeros(HashLen)) \o RlpBytes(Zeros(NonceLen))
    ELSE << >>

\* json_spirit object access
Has(obj, k) == k \in DOMAIN obj

(***************************************************************************)
(* ChainParams                                                             *)
(***************************************************************************)
\* a default-constructed ChainParams
EmptyParams ==
    [ sealEngineName |-> "NoProof",
      accountStartNonce |-> 0,
      maximumExtraDataSize |-> 0,
      tieBreakingGas |-> TRUE,
      blockReward |-> 0,
      otherParams |-> << >>,
      precompiled |-> {},
      genesisState |-> << >>,
      stateRoot |-> Zeros(HashLen),
      parentHash |-> Zeros(HashLen),
      author |-> Zeros(AddressLen),
      difficulty |-> 0,
      gasLimit |-> 0,
      gasUsed |-> 0,
      timestamp |-> 0,
      extraData |-> << >>,
      sealFields |-> 0,
      sealRLP |-> << >> ]

\* ChainParams(ChainParams const&): every field is copied
CopyParams(org) ==
    [ sealEngineName |-> org.sealEngineName,
      accountStartNonce |-> org.accountStartNonce,
      maximumExtraDataSize |-> org.maximumExtraDataSize,
      tieBreakingGas |-> org.tieBreakingGas,
      blockReward |-> org.blockReward,
      otherParams |-> org.otherParams,
      precompiled |-> org.precompiled,
      genesisState |-> org.genesisState,
      stateRoot |-> org.stateRoot,
      parentHash |-> org.parentHash,
      author |-> org.author,
      difficulty |-> org.difficulty,
      gasLimit |-> org.gasLimit,
      gasUsed |-> org.gasUsed,
      timestamp |-> org.timestamp,
      extraData |-> org.extraData,
      sealFields |-> org.sealFields,
      sealRLP |-> org.sealRLP ]

\* calculateStateRoot with the memo test dropped
calculateStateRootAlways(p) ==
    Let(LAMBDA v : [v EXCEPT !.stateRoot = TrieRoot(v.genesisState)], p)

\* calculateStateRoot: the value afterwards (stateRoot is mutable); the call
\* returns the stateRoot of that value
calculateStateRoot(p) ==
    Let(LAMBDA v : IF IsZero(v.stateRoot)
                   THEN [v EXCEPT !.stateRoot = TrieRoot(v.genesisState)]
                   ELSE v,
        p)

\* BasicItems with gasUsed appended before gasLimit
BasicItemsGasUsedFirst(p) ==
    << RlpBytes(p.parentHash),
       RlpBytes(EmptyListSHA3),
       RlpBytes(p.author),
       RlpBytes(p.stateRoot),
       RlpBytes(EmptyTrie),
       RlpBytes(EmptyTrie),
       RlpBytes(LogBloom),
       RlpInt(p.difficulty),
       RlpInt(0),
       RlpInt(p.gasUsed),
       RlpInt(p.gasLimit),
       RlpInt(p.timestamp),
       RlpBytes(p.extraData) >>

\* the thirteen basic header fields in the order genesisBlock appends them
BasicItems(p) ==
    << RlpBytes(p.parentHash),
       RlpBytes(EmptyListSHA3),
       RlpBytes(p.author),
       RlpBytes(p.stateRoot),
       RlpBytes(EmptyTrie),
       RlpBytes(EmptyTrie),
       RlpBytes(LogBloom),
       RlpInt(p.difficulty),
       RlpInt(0),
       RlpInt(p.gasLimit),
       RlpInt(p.gasUsed),
       RlpInt(p.timestamp),
       RlpBytes(p.extraData) >>

RECURSIVE Concat(_)
Concat(seqs) ==
    IF Len(seqs) = 0 THEN << >>
    ELSE Concat(SubSeq(seqs, 1, Len(seqs) - 1)) \o seqs[Len(seqs)]

\* the bytes of the RLPStream block(3) at the end of genesisBlock(), on a
\* value whose state root has been ensured.  The header list is open for
\* BasicFields + sealFields items and appendRaw(sealRLP, sealFields) counts
\* sealFields of them: with sealFields = 0 the header closes at extraData and
\* sealRLP lands behind it
BlockBytes(p) ==
    IF p.sealFields = 0
    THEN RlpList(RlpList(Concat(BasicItems(p))) \o p.sealRLP
                 \o RLPEmptyList \o RLPEmptyList)
    ELSE RlpList(RlpList(Concat(BasicItems(p)) \o p.sealRLP)
                 \o RLPEmptyList \o RLPEmptyList)

\* genesisBlock(): the bytes returned; the value afterwards is
\* calculateStateRoot(p)
genesisBlock(p) == Let(LAMBDA q : BlockBytes(q), calculateStateRoot(p))

\* whether setGenesis takes a seal from the genesis object
HasSeal(genesis) ==
    (Has(genesis, "mixhash") \/ Has(genesis, "mixHash")) /\ Has(genesis, "nonce")

\* MixHashKey with the camel-case spelling tested first
MixHashKeyCamelFirst(genesis) ==
    IF Has(genesis, "mixHash") THEN "mixHash" ELSE "mixhash"

\* the key setGenesis reads the mix hash from
MixHashKey(genesis) ==
    IF Has(genesis, "mixhash") THEN "mixhash" ELSE "mixHash"

\* setGenesis(_json, _stateRoot, _org), invoked on self: cp is the value
\* returned, self and org are the receiver and the base afterwards, threw
\* tells that a required key was missing
setGenesis(self, genesis, root, org) ==
    LET cp0 == CopyParams(org)
        ok == /\ Has(genesis, "parentHash")
              /\ (Has(genesis, "coinbase") \/ Has(genesis, "author"))
              /\ Has(genesis, "gasLimit")
              /\ Has(genesis, "timestamp")
              /\ Has(genesis, "extraData")
        cp1 == [cp0 EXCEPT
                  !.parentHash = HashFromHex(genesis["parentHash"], HashLen),
                  !.author = IF Has(genesis, "coinbase")
                             THEN HashFromHex(genesis["coinbase"], AddressLen)
                             ELSE HashFromHex(genesis["author"], AddressLen),
                  !.difficulty = IF Has(genesis, "difficulty")
                                 THEN IntFromHex(genesis["difficulty"]) ELSE 0,
                  !.gasLimit = IntFromHex(genesis["gasLimit"]),
                  !.gasUsed = IF Has(genesis, "gasUsed")
                              THEN IntFromHex(genesis["gasUsed"]) ELSE 0,
                  !.timestamp = IntFromHex(genesis["timestamp"]),
                  !.extraData = FromHex(genesis["extraData"])]
        sealed == HasSeal(genesis)
        mixHash == HashFromHex(genesis[MixHashKey(genesis)], HashLen)
        nonce == HashFromHex(genesis["nonce"], NonceLen)
        cp2 == IF sealed
               THEN [cp1 EXCEPT !.sealFields = 2,
                                !.sealRLP = RlpBytes(mixHash) \o RlpBytes(nonce)]
               ELSE cp1
        cp3 == IF ~IsZero(root) THEN [cp2 EXCEPT !.stateRoot = root]
               ELSE calculateStateRoot(cp2)
    IN  IF ok THEN [cp |-> cp3, self |-> self, org |-> org, threw |-> FALSE]
        ELSE [cp |-> cp0, self |-> self, org |-> org, threw |-> TRUE]

\* setGenesisState working on _org itself instead of a copy of it
setGenesisStateInPlace(self, accounts, precompiled, org) ==
    Let(LAMBDA cp : [cp |-> cp, self |-> self, org |-> cp, threw |-> FALSE],
        [org EXCEPT !.precompiled = precompiled,
                    !.genesisState = jsonToAccountMap(accounts)])

\* setGenesisState(_json, _precompiled, _org), invoked on self
setGenesisState(self, accounts, precompiled, org) ==
    LET cp0 == CopyParams(org)
        cp1 == [cp0 EXCEPT !.precompiled = precompiled,
                           !.genesisState = jsonToAccountMap(accounts)]
    IN  [cp |-> cp1, self |-> self, org |-> org, threw |-> FALSE]

\* the four parameters promoted to typed fields
NamedParams == {"accountStartNonce", "maximumExtraDataSize", "blockReward", "tieBreakingGas"}

\* the keys loadConfig reads with get_str()/get_obj() and no test
ConfigOk(obj) ==
    /\ Has(obj, "sealEngine") /\ Has(obj, "params")
    /\ Has(obj["params"], "accountStartNonce")
    /\ Has(obj["params"], "maximumExtraDataSize")
    /\ Has(obj["params"], "blockReward")

\* the chain parameters loadConfig assigns to its copy cp
ParamsApplied(cp, obj, params) ==
    [cp EXCEPT
       !.sealEngineName = obj["sealEngine"],
       !.accountStartNonce = IntFromHex(params["accountStartNonce"]),
       !.maximumExtraDataSize = IntFromHex(params["maximumExtraDataSize"]),
       !.tieBreakingGas = IF Has(params, "tieBreakingGas")
                          THEN params["tieBreakingGas"] ELSE TRUE,
       !.blockReward = IntFromHex(params["blockReward"]),
       !.otherParams = [k \in DOMAIN @ \cup (DOMAIN params \ NamedParams) |->
                           IF k \in DOMAIN params \ NamedParams THEN params[k]
                           ELSE @[k]]]

\* loadConfig(_json, _importGenesis, _stateRoot), invoked on self: the values
\* setGenesis and setGenesisState return are dropped; cp is the value
\* returned, self the receiver afterwards
loadConfig(self, obj, importGenesis, root) ==
    IF ~ConfigOk(obj) THEN [cp |-> self, self |-> self, threw |-> TRUE]
    ELSE
    Let(LAMBDA cp :
      Let(LAMBDA g :
        IF g.threw THEN [cp |-> g.org, self |-> g.self, threw |-> TRUE]
        ELSE IF ~Has(obj, "accounts") THEN [cp |-> g.org, self |-> g.self, threw |-> TRUE]
        ELSE Let(LAMBDA st : [cp |-> st.org, self |-> st.self, threw |-> st.threw],
                 setGenesisState(g.self, obj["accounts"], {}, g.org)),
        IF ~importGenesis THEN [cp |-> cp, self |-> self, org |-> cp, threw |-> FALSE]
        ELSE IF ~Has(obj, "genesis") THEN [cp |-> cp, self |-> self, org |-> cp, threw |-> TRUE]
        ELSE setGenesis(self, obj["genesis"], root, cp)),
      ParamsApplied(CopyParams(self), obj, obj["params"]))

\* ChainParams(_json, _stateRoot): the value constructed
Construct(obj, root) ==
    Let(LAMBDA r : [cp |-> r.self, threw |-> r.threw],
        loadConfig(EmptyParams, obj, TRUE, root))

\* loadGenesisState(_json, _precompiled), invoked on self
loadGenesisState(self, accounts, precompiled) ==
    Let(LAMBDA r : [cp |-> r.cp, self |-> r.org, threw |-> r.threw],
        setGenesisState(self, accounts, precompiled, self))

\* loadGenesis(_json, _stateRoot), invoked on self
loadGenesis(self, genesis, root) ==
    Let(LAMBDA r : [cp |-> r.cp, self |-> r.org, threw |-> r.threw],
        setGenesis(self, genesis, root, self))

\* createSealEngine with the sealRLP.empty() test dropped
createSealEngineAlways(p) ==
    [p EXCEPT !.sealFields = EngineSealFields(p.sealEngineName),
              !.sealRLP = EngineSealRLP(p.sealEngineName)]

\* createSealEngine(): the value afterwards
createSealEngine(p) ==
    IF Len(p.sealRLP) = 0
    THEN [p EXCEPT !.sealFields = EngineSealFields(p.sealEngineName),
                   !.sealRLP = EngineSealRLP(p.sealEngineName)]
    ELSE p

\* BlockHeader(_genesisRLP, BlockData or HeaderData): the header's items
HeaderItems(raw) ==
    Let(LAMBDA r0 : IF IsList(r0) THEN ListItems(r0) ELSE ListItems(raw),
        ListItems(raw)[1])

\* the fields populateFromGenesis assigns before it re-assembles: bi are the
\* header's items, r0 the items of the first item of the block
Populated(self, bi, r0, state) ==
    [self EXCEPT
       !.parentHash = Payload(bi[1]),
       !.author = Payload(bi[3]),
       !.difficulty = ToInt(bi[8]),
       !.gasLimit = ToInt(bi[10]),
       !.gasUsed = ToInt(bi[11]),
       !.timestamp = ToInt(bi[12]),
       !.extraData = Payload(bi[13]),
       !.genesisState = state,
       !.sealFields = Len(r0) - BasicFields,
       !.sealRLP = Concat(SubSeq(r0, BasicFields + 1, Len(r0)))]

\* populateFromGenesis(_genesisRLP, _state) on a block whose header has at
\* least BasicFields items: obj is the value afterwards, threw the throw 0
populateFromGenesis(self, raw, state) ==
    Let(LAMBDA bi :
      Let(LAMBDA r0 :
        Let(LAMBDA p : [obj |-> p, threw |-> BlockBytes(p) # raw],
            calculateStateRoot(Populated(self, bi, r0, state))),
        ListItems(ListItems(raw)[1])),
      HeaderItems(raw))

(***************************************************************************)
(* Inputs                                                                  *)
(***************************************************************************)
\* the override roots a caller passes: none, or a trusted root
Roots == [zero |-> Zeros(HashLen), known |-> HashOf(HashLen, 7)]

\* genesis objects: the one of the end-to-end example, and a proof-of-work
\* one with coinbase and author, mix hash and nonce, and two bytes of extra data
Genesis ==
    [ example |->
        [ parentHash |-> ToHex(Zeros(HashLen)),
          author |-> ToHex(Zeros(AddressLen)),
          gasLimit |-> << 2, 15, 14, 15, 13, 8 >>,
          timestamp |-> << 0, 0 >>,
          extraData |-> << >> ],
      pow |->
        [ parentHash |-> ToHex(HashOf(HashLen, 9)),
          coinbase |-> ToHex(HashOf(AddressLen, 2)),
          author |-> ToHex(HashOf(AddressLen, 1)),
          difficulty |-> << 0, 4, 0, 0 >>,
          gasLimit |-> << 1, 3, 8, 8 >>,
          gasUsed |-> << 2, 1 >>,
          timestamp |-> << 5, 4 >>,
          extraData |-> << 1, 1, 2, 2 >>,
          mixHash |-> ToHex(HashOf(HashLen, 5)),
          nonce |-> ToHex(HashOf(NonceLen, 66)) ] ]

\* accounts objects: the empty one and one account with a balance
Accounts ==
    [ none |-> << >>,
      one |-> (ToHex(HashOf(AddressLen, 1)) :> [balance |-> << 0, 1 >>]) ]

\* the precompiled table handed to loadGenesisState
NoPrecompiled == {}

\* configurations: the end-to-end example and a proof-of-work chain
Configs ==
    [ example |->
        [ sealEngine |-> "NoProof",
          params |-> [ accountStartNonce |-> << 0, 0 >>,
                       maximumExtraDataSize |-> << 2, 0 >>,
                       blockReward |-> << 0, 0 >> ],
          genesis |-> Genesis["example"],
          accounts |-> Accounts["none"] ],
      ethash |->
        [ sealEngine |-> "Ethash",
          params |-> [ accountStartNonce |-> << 0, 0 >>,
                       maximumExtraDataSize |-> << 0, 1 >>,
                       blockReward |-> << 0, 5 >>,
                       tieBreakingGas |-> FALSE,
                       minGasLimit |-> << 1, 3, 8, 8 >> ],
          genesis |-> Genesis["pow"],
          accounts |-> Accounts["one"] ] ]

\* the optional keys setGenesis tests with count()
OptionalKeys == {"mixhash", "mixHash", "nonce", "coinbase"}

\* a genesis object with every key setGenesis reads; the two spellings of
\* the mix-hash key carry different hashes
FullGenesis ==
    [ parentHash |-> ToHex(HashOf(HashLen, 9)),
      coinbase |-> ToHex(HashOf(AddressLen, 2)),
      author |-> ToHex(HashOf(AddressLen, 1)),
      gasLimit |-> << 1, 3, 8, 8 >>,
      timestamp |-> << 5, 4 >>,
      extraData |-> << 1, 1 >>,
      mixhash |-> ToHex(HashOf(HashLen, 3)),
      mixHash |-> ToHex(HashOf(HashLen, 5)),
      nonce |-> ToHex(HashOf(NonceLen, 66)) ]

\* FullGenesis with only the optional keys in opt
GenesisVariant(opt) ==
    [k \in (DOMAIN FullGenesis \ OptionalKeys) \cup opt |-> FullGenesis[k]]

\* the value a node holds after loadConfig on a default value
LoadedConfig(cfg) == loadConfig(EmptyParams, Configs[cfg], TRUE, Roots["zero"]).cp

\* the value a node holds after loadConfig, loadGenesisState and loadGenesis
Started(cfg, a, g) ==
    Let(LAMBDA c :
      Let(LAMBDA st : loadGenesis(st, Genesis[g], Roots["zero"]).cp,
          loadGenesisState(c, Accounts[a], NoPrecompiled).cp),
      LoadedConfig(cfg))

\* the ChainParams values a caller holds
Slots == {1, 2}

Other(i) == CHOOSE j \in Slots : j # i

\* number of calls made in a run
MaxSteps == 2

\* number of calls made in a run of the round-trip specification
MaxRoundSteps == 3

(***************************************************************************)
(* State                                                                   *)
(***************************************************************************)
VARIABLES
    vals,      \* the ChainParams value in every slot
    pre,       \* the values before the last call
    call,      \* the last call: operation, receiver, destination, arguments
    threw,     \* whether the last call threw
    block,     \* the bytes the last genesisBlock() returned
    src,       \* the value that genesisBlock() was called on, as it left it
    ret,       \* the hash the last calculateStateRoot() returned
    supplied,  \* the slots whose seal came from a genesis object or a decoded block
    overrode,  \* the slots whose stateRoot came from a non-zero override root
    steps

vars == << vals, pre, call, threw, block, src, ret, supplied, overrode, steps >>

NoCall == [op |-> "none", self |-> 0, dst |-> 0, arg |-> "", root |-> "", flag |-> FALSE]

\* the history common to every initial state
NoHistory ==
    /\ pre = vals
    /\ call = NoCall
    /\ threw = FALSE
    /\ block = << >>
    /\ src = EmptyParams
    /\ ret = << >>
    /\ overrode = {}
    /\ steps = 0

\* a default value, or a loaded configuration, next to a default value
Init ==
    /\ \E v \in {EmptyParams} \cup { LoadedConfig(c) : c \in DOMAIN Configs } :
          vals = [s \in Slots |-> IF s = 1 THEN v ELSE EmptyParams]
    /\ supplied = {}
    /\ NoHistory

\* bookkeeping common to every call
Called(c, t, bound) ==
    /\ steps < bound
    /\ steps' = steps + 1
    /\ pre' = vals
    /\ call' = c
    /\ threw' = t

\* slot j now holds a value made from slot i: with(j) tells whether it joins set
Derived(set, i, j, with) ==
    IF with \/ i \in set THEN set \cup {j} ELSE set \ {j}

\* vals[j] = ChainParams(json, root)
DoConstruct(j, cfg) ==
    /\ \E r \in { Construct(Configs[cfg], Roots["zero"]) } :
          /\ Called([NoCall EXCEPT !.op = "construct", !.dst = j, !.arg = cfg,
                                   !.root = "zero", !.flag = TRUE], r.threw, MaxSteps)
          /\ vals' = IF r.threw THEN vals ELSE [vals EXCEPT ![j] = r.cp]
          /\ supplied' = IF r.threw THEN supplied ELSE supplied \ {j}
          /\ overrode' = IF r.threw THEN overrode ELSE overrode \ {j}
    /\ UNCHANGED << block, src, ret >>

\* the assignment vals[j] = vals[i].step(...), r being what the step did
Assigned(i, j, r) ==
    IF r.threw THEN [vals EXCEPT ![i] = r.self]
    ELSE [[vals EXCEPT ![i] = r.self] EXCEPT ![j] = r.cp]

\* vals[j] = vals[i].loadConfig(json, importGenesis, zero root), j the other slot
DoLoadConfig(i, cfg, importGenesis) ==
    /\ \E r \in { loadConfig(vals[i], Configs[cfg], importGenesis, Roots["zero"]) } :
          /\ Called([op |-> "loadConfig", self |-> i, dst |-> Other(i), arg |-> cfg,
                     root |-> "zero", flag |-> importGenesis], r.threw, MaxSteps)
          /\ vals' = Assigned(i, Other(i), r)
          /\ supplied' = IF r.threw THEN supplied ELSE Derived(supplied, i, Other(i), FALSE)
          /\ overrode' = IF r.threw THEN overrode ELSE Derived(overrode, i, Other(i), FALSE)
    /\ UNCHANGED << block, src, ret >>

\* vals[j] = vals[i].loadGenesis(json, root), j the other slot
DoLoadGenesis(i, g, root) ==
    /\ \E r \in { loadGenesis(vals[i], Genesis[g], Roots[root]) } :
          /\ Called([NoCall EXCEPT !.op = "loadGenesis", !.self = i, !.dst = Other(i),
                                   !.arg = g, !.root = root], r.threw, MaxSteps)
          /\ vals' = Assigned(i, Other(i), r)
          /\ supplied' = IF r.threw THEN supplied
                         ELSE Derived(supplied, i, Other(i), HasSeal(Genesis[g]))
          /\ overrode' = IF r.threw THEN overrode
                         ELSE Derived(overrode, i, Other(i), root # "zero")
    /\ UNCHANGED << block, src, ret >>

\* vals[j] = vals[i].loadGenesisState(json, precompiled), j the other slot
DoLoadGenesisState(i, a) ==
    /\ \E r \in { loadGenesisState(vals[i], Accounts[a], NoPrecompiled) } :
          /\ Called([NoCall EXCEPT !.op = "loadGenesisState", !.self = i,
                                   !.dst = Other(i), !.arg = a], r.threw, MaxSteps)
          /\ vals' = Assigned(i, Other(i), r)
          /\ supplied' = IF r.threw THEN supplied ELSE Derived(supplied, i, Other(i), FALSE)
          /\ overrode' = IF r.threw THEN overrode ELSE Derived(overrode, i, Other(i), FALSE)
    /\ UNCHANGED << block, src, ret >>

\* vals[j] = ChainParams(vals[i]), j the other slot
DoCopy(i) ==
    /\ Called([NoCall EXCEPT !.op = "copy", !.self = i, !.dst = Other(i)], FALSE, MaxSteps)
    /\ vals' = [vals EXCEPT ![Other(i)] = CopyParams(vals[i])]
    /\ supplied' = Derived(supplied, i, Other(i), FALSE)
    /\ overrode' = Derived(overrode, i, Other(i), FALSE)
    /\ UNCHANGED << block, src, ret >>

\* vals[i].calculateStateRoot()
DoCalculateStateRoot(i) ==
    /\ Called([NoCall EXCEPT !.op = "calculateStateRoot", !.self = i], FALSE, MaxSteps)
    /\ \E v \in { calculateStateRoot(vals[i]) } :
          /\ vals' = [vals EXCEPT ![i] = v]
          /\ ret' = v.stateRoot
    /\ UNCHANGED << block, src, supplied, overrode >>

\* block = vals[i].genesisBlock(), within bound calls
GenesisBlockCall(i, bound) ==
    /\ Called([NoCall EXCEPT !.op = "genesisBlock", !.self = i], FALSE, bound)
    /\ \E v \in { calculateStateRoot(vals[i]) } :
          /\ vals' = [vals EXCEPT ![i] = v]
          /\ src' = v
    /\ block' = genesisBlock(vals[i])
    /\ UNCHANGED << ret, supplied, overrode >>

DoGenesisBlock(i) == GenesisBlockCall(i, MaxSteps)

Next ==
    \/ \E j \in Slots, cfg \in DOMAIN Configs : DoConstruct(j, cfg)
    \/ \E i \in Slots, cfg \in DOMAIN Configs, f \in BOOLEAN : DoLoadConfig(i, cfg, f)
    \/ \E i \in Slots, g \in DOMAIN Genesis, root \in DOMAIN Roots : DoLoadGenesis(i, g, root)
    \/ \E i \in Slots, a \in DOMAIN Accounts : DoLoadGenesisState(i, a)
    \/ \E i \in Slots : DoCopy(i)
    \/ \E i \in Slots : DoCalculateStateRoot(i)
    \/ \E i \in Slots : DoGenesisBlock(i)

Spec == Init /\ [][Next]_vars

(***************************************************************************)
(* The round trip: values of started nodes, genesisBlock(),                *)
(* populateFromGenesis() and createSealEngine().                           *)
(***************************************************************************)
\* a loaded proof-of-work configuration without genesis, a started example
\* chain and a started proof-of-work chain
RoundValues ==
    [ loaded |-> LoadedConfig("ethash"),
      example |-> Started("example", "none", "example"),
      pow |-> Started("ethash", "one", "pow") ]

RoundInit ==
    /\ \E n \in [Slots -> DOMAIN RoundValues] :
          /\ vals = [s \in Slots |-> RoundValues[n[s]]]
          /\ supplied = { s \in Slots : n[s] = "pow" }
    /\ NoHistory

DoRoundGenesisBlock(i) == GenesisBlockCall(i, MaxRoundSteps)

\* vals[i].createSealEngine()
DoCreateSealEngine(i) ==
    /\ Called([NoCall EXCEPT !.op = "createSealEngine", !.self = i], FALSE, MaxRoundSteps)
    /\ vals' = [vals EXCEPT ![i] = createSealEngine(vals[i])]
    /\ UNCHANGED << block, src, ret, supplied, overrode >>

\* vals[i].populateFromGenesis(block, accounts): block is a genesis block
\* assembled earlier, accounts an account map parsed from an accounts object
DoPopulateFromGenesis(i, a) ==
    /\ Len(block) > 0
    /\ \E r \in { populateFromGenesis(vals[i], block, jsonToAccountMap(Accounts[a])) } :
          /\ Called([NoCall EXCEPT !.op = "populateFromGenesis", !.self = i, !.arg = a],
                    r.threw, MaxRoundSteps)
          /\ vals' = [vals EXCEPT ![i] = r.obj]
          \* a value whose populateFromGenesis threw is not one with a decoded seal
          /\ supplied' = IF r.threw THEN supplied \ {i} ELSE supplied \cup {i}
    /\ UNCHANGED << block, src, ret, overrode >>

RoundNext ==
    \/ \E i \in Slots : DoRoundGenesisBlock(i)
    \/ \E i \in Slots : DoCreateSealEngine(i)
    \/ \E i \in Slots, a \in DOMAIN Accounts : DoPopulateFromGenesis(i, a)

RoundSpec == RoundInit /\ [][RoundNext]_vars

(***************************************************************************)
(* setGenesis as a function of the genesis object: every choice of the     *)
(* optional keys, applied once to a started value.                         *)
(***************************************************************************)
\* the values setGenesis is applied to: a default value and the started ones
GenesisBases == RoundValues @@ [default |-> EmptyParams]

GenesisInit ==
    /\ \E n \in DOMAIN GenesisBases :
          /\ vals = [s \in Slots |-> IF s = 1 THEN GenesisBases[n] ELSE EmptyParams]
          /\ supplied = IF n = "pow" THEN {1} ELSE {}
    /\ NoHistory

\* vals[2] = vals[1].loadGenesis(GenesisVariant(opt), root); call.arg holds opt
DoApplyGenesis(opt, root) ==
    /\ \E r \in { loadGenesis(vals[1], GenesisVariant(opt), Roots[root]) } :
          /\ Called([op |-> "loadGenesis", self |-> 1, dst |-> 2, arg |-> opt,
                     root |-> root, flag |-> FALSE], r.threw, 1)
          /\ vals' = Assigned(1, 2, r)
          /\ supplied' = IF r.threw THEN supplied
                         ELSE Derived(supplied, 1, 2, HasSeal(GenesisVariant(opt)))
          /\ overrode' = IF r.threw THEN overrode ELSE Derived(overrode, 1, 2, root # "zero")
    /\ UNCHANGED << block, src, ret >>

GenesisNext == \E opt \in SUBSET OptionalKeys, root \in DOMAIN Roots : DoApplyGenesis(opt, root)

GenesisSpec == GenesisInit /\ [][GenesisNext]_vars

(***************************************************************************)
(* Properties                                                              *)
(***************************************************************************)
\* C1: loadConfig with genesis import enabled (and the constructor built on
\* it) returns a value that carries the header fields parsed from the
\* config's genesis object and the account map parsed from its accounts, so
\* that genesisBlock() on it decodes to the configured gasLimit (0x2fefd8 =
\* 3141592 for the end-to-end example) and, for empty accounts, to the
\* empty-trie state root.
C1_LoadConfigComposes ==
    (call.op \in {"loadConfig", "construct"} /\ call.flag /\ ~threw) =>
        LET cp == vals[call.dst]
            cfg == Configs[call.arg]
            h == HeaderItems(genesisBlock(cp))
        IN  /\ cp.parentHash = HashFromHex(cfg.genesis.parentHash, HashLen)
            /\ cp.gasLimit = IntFromHex(cfg.genesis.gasLimit)
            /\ cp.timestamp = IntFromHex(cfg.genesis.timestamp)
            /\ cp.extraData = FromHex(cfg.genesis.extraData)
            /\ cp.genesisState = jsonToAccountMap(cfg.accounts)
            /\ ToInt(h[10]) = IntFromHex(cfg.genesis.gasLimit)
            /\ (call.arg = "example" => ToInt(h[10]) = 3141592)
            /\ (DOMAIN cfg.accounts = {} => Payload(h[4]) = EmptyTrie)

\* C1's case: loadConfig of the end-to-end example with genesis import returned
C1_Case ==
    /\ call.op = "loadConfig" /\ call.flag /\ ~threw
    /\ call.arg = "example"
    /\ vals[call.dst].maximumExtraDataSize = 32

\* C2: populateFromGenesis on bytes whose header state root differs from the
\* trie root of the supplied account map raises the fatal error, on every
\* receiver, and never completes normally with a stateRoot that does not
\* commit to the account map.
C2_FatalMismatch ==
    (call.op = "populateFromGenesis") =>
        LET m == jsonToAccountMap(Accounts[call.arg])
        IN  /\ (Payload(HeaderItems(block)[4]) # TrieRoot(m) => threw)
            /\ (~threw => vals[call.self].stateRoot = TrieRoot(m))

\* C2's case: the header root differs from the root of the supplied accounts
\* and the receiver had a memoized root
C2_Case ==
    /\ call.op = "populateFromGenesis"
    /\ Payload(HeaderItems(block)[4]) # TrieRoot(jsonToAccountMap(Accounts[call.arg]))
    /\ ~IsZero(pre[call.self].stateRoot)

\* C3: for P with a computed stateRoot, populateFromGenesis(genesisBlock(P),
\* P.genesisState) completes without the fatal error on any receiver and
\* leaves a value whose genesisBlock() equals genesisBlock(P).
C3_RoundTrip ==
    (/\ call.op = "populateFromGenesis"
     /\ ~IsZero(src.stateRoot)
     /\ block = genesisBlock(src)
     /\ jsonToAccountMap(Accounts[call.arg]) = src.genesisState) =>
        /\ ~threw
        /\ genesisBlock(vals[call.self]) = block

\* C3's case: the block of P and P's account map go to a receiver that held
\* other contents
C3_Case ==
    /\ call.op = "populateFromGenesis"
    /\ ~IsZero(src.stateRoot)
    /\ block = genesisBlock(src)
    /\ jsonToAccountMap(Accounts[call.arg]) = src.genesisState
    /\ pre[call.self].genesisState # src.genesisState

\* C4: in every value reached without a non-zero override root, stateRoot is
\* zero or the trie root of the value's genesisState, so genesisBlock() never
\* embeds the root of an earlier account map.
C4_StateRootInvariant ==
    /\ \A s \in Slots \ overrode :
          \/ IsZero(vals[s].stateRoot)
          \/ vals[s].stateRoot = TrieRoot(vals[s].genesisState)
    /\ (call.op = "genesisBlock" /\ call.self \notin overrode) =>
          Payload(HeaderItems(block)[4]) = TrieRoot(vals[call.self].genesisState)

\* C4's case: loadGenesisState replaced the account map of a value whose root
\* had been computed
C4_Case ==
    /\ call.op = "loadGenesisState" /\ ~threw
    /\ call.self \notin overrode
    /\ ~IsZero(pre[call.self].stateRoot)
    /\ vals[call.dst].genesisState # pre[call.self].genesisState

\* C5: genesisBlock() on a value whose extraData is longer than
\* maximumExtraDataSize rejects it; loadGenesis accepts such extraData.
C5_ExtraDataBound ==
    /\ (call.op = "genesisBlock"
        /\ Len(pre[call.self].extraData) > pre[call.self].maximumExtraDataSize) => threw
    /\ (call.op = "loadGenesis") => ~threw

\* C5's case: genesisBlock() was called on a value with oversized extraData
C5_Case ==
    /\ call.op = "genesisBlock"
    /\ Len(pre[call.self].extraData) > pre[call.self].maximumExtraDataSize

\* C6: an apply step (loadGenesis, loadGenesisState, loadConfig) leaves every
\* field of the value it is invoked on unchanged, memoized stateRoot and seal
\* included, so that value still yields the same genesisBlock() bytes.
C6_FunctionalUpdate ==
    (call.op \in {"loadGenesis", "loadGenesisState", "loadConfig"}) =>
        /\ vals[call.self] = pre[call.self]
        /\ genesisBlock(vals[call.self]) = genesisBlock(pre[call.self])

\* C6's case: loadGenesisState changed the account map in its result while
\* the receiver had a memoized root
C6_Case ==
    /\ call.op = "loadGenesisState" /\ ~threw
    /\ ~IsZero(pre[call.self].stateRoot)
    /\ vals[call.dst].genesisState # pre[call.self].genesisState

\* C7: calculateStateRoot(), directly or through genesisBlock(), on a value
\* with a non-zero stateRoot returns that stateRoot and leaves it, whatever
\* the genesisState; on a zero stateRoot it stores and returns the trie root
\* of genesisState.  No other field changes.
C7_IdempotentMemo ==
    (call.op \in {"calculateStateRoot", "genesisBlock"}) =>
        LET p == pre[call.self]
            v == vals[call.self]
            root == IF IsZero(p.stateRoot) THEN TrieRoot(p.genesisState) ELSE p.stateRoot
        IN  /\ v = [p EXCEPT !.stateRoot = root]
            /\ (call.op = "calculateStateRoot" => ret = root)
            /\ (call.op = "genesisBlock" => Payload(HeaderItems(block)[4]) = root)

\* C7's case: the computation ran on a memoized root that is not the trie
\* root of the current genesisState
C7_Case ==
    /\ call.op = "calculateStateRoot"
    /\ ~IsZero(pre[call.self].stateRoot)
    /\ pre[call.self].stateRoot # TrieRoot(pre[call.self].genesisState)
    /\ ret = pre[call.self].stateRoot

\* C8, as claimed: createSealEngine leaves sealFields and sealRLP, and so the
\* genesisBlock() bytes, unchanged on a value whose seal came from the
\* genesis configuration or was decoded by populateFromGenesis, whatever the
\* number of seal fields decoded.
C8_SuppliedSealKept ==
    (call.op = "createSealEngine" /\ call.self \in supplied) =>
        /\ vals[call.self].sealFields = pre[call.self].sealFields
        /\ vals[call.self].sealRLP = pre[call.self].sealRLP
        /\ genesisBlock(vals[call.self]) = genesisBlock(pre[call.self])

\* C8, amended: createSealEngine replaces sealFields and sealRLP with the
\* engine's defaults exactly when sealRLP is empty, which includes a value
\* populateFromGenesis decoded zero seal fields into; on a non-empty sealRLP
\* it changes nothing and genesisBlock() returns the same bytes.
C8_BackFillWhenEmpty ==
    (call.op = "createSealEngine") =>
        LET p == pre[call.self]
            v == vals[call.self]
        IN  IF Len(p.sealRLP) = 0
            THEN v = [p EXCEPT !.sealFields = EngineSealFields(p.sealEngineName),
                               !.sealRLP = EngineSealRLP(p.sealEngineName)]
            ELSE /\ v = p
                 /\ genesisBlock(v) = genesisBlock(p)

\* C8's case: createSealEngine ran on a value populateFromGenesis had decoded
\* zero seal fields into, and back-filled two
C8_Case ==
    /\ call.op = "createSealEngine"
    /\ call.self \in supplied
    /\ pre[call.self].sealFields = 0
    /\ vals[call.self].sealFields = 2

\* C9: a genesis object with a mix-hash key (mixhash before mixHash) and a
\* nonce gives sealFields = 2 and sealRLP = the encoding of the mix hash then
\* the encoding of the nonce; with either missing, sealFields and sealRLP are
\* those of the base value.
C9_SealDetection ==
    (call.op = "loadGenesis" /\ ~threw) =>
        LET opt == call.arg
            cp == vals[call.dst]
            base == pre[call.self]
            mix == IF "mixhash" \in opt THEN FullGenesis.mixhash ELSE FullGenesis.mixHash
        IN  IF ("mixhash" \in opt \/ "mixHash" \in opt) /\ "nonce" \in opt
            THEN /\ cp.sealFields = 2
                 /\ Len(Items(cp.sealRLP)) = 2
                 /\ ToHex(Payload(Items(cp.sealRLP)[1])) = mix
                 /\ ToHex(Payload(Items(cp.sealRLP)[2])) = FullGenesis.nonce
                 /\ Len(cp.sealRLP) = (1 + HashLen) + (1 + NonceLen)
            ELSE /\ cp.sealFields = base.sealFields
                 /\ cp.sealRLP = base.sealRLP

\* C9's case: both spellings of the mix-hash key and a nonce were present
C9_Case ==
    /\ call.op = "loadGenesis" /\ ~threw
    /\ {"mixhash", "mixHash", "nonce"} \subseteq call.arg
    /\ vals[call.dst].sealFields = 2

\* C10: genesisBlock() returns a list of three items: a header list of
\* BasicFields + sealFields items in the order parentHash, empty-list hash,
\* author, stateRoot, empty-trie hash twice, zero log bloom, difficulty,
\* number 0, gasLimit, gasUsed, timestamp, extraData, then the sealFields
\* items of sealRLP; and two empty lists.  The stateRoot item is the
\* value's stateRoot after it has been ensured.
C10_CanonicalLayout ==
    (call.op = "genesisBlock") =>
        LET p == pre[call.self]
            outer == ListItems(block)
            h == ListItems(outer[1])
            root == IF IsZero(p.stateRoot) THEN TrieRoot(p.genesisState) ELSE p.stateRoot
        IN  /\ IsList(block) /\ Len(outer) = 3
            /\ IsList(outer[1]) /\ Len(h) = BasicFields + p.sealFields
            /\ Payload(h[1]) = p.parentHash
            /\ Payload(h[2]) = EmptyListSHA3
            /\ Payload(h[3]) = p.author
            /\ Payload(h[4]) = root
            /\ Payload(h[5]) = EmptyTrie
            /\ Payload(h[6]) = EmptyTrie
            /\ Payload(h[7]) = Zeros(BloomLen)
            /\ ToInt(h[8]) = p.difficulty
            /\ ToInt(h[9]) = 0
            /\ ToInt(h[10]) = p.gasLimit
            /\ ToInt(h[11]) = p.gasUsed
            /\ ToInt(h[12]) = p.timestamp
            /\ Payload(h[13]) = p.extraData
            /\ Concat(SubSeq(h, BasicFields + 1, Len(h))) = p.sealRLP
            /\ outer[2] = RLPEmptyList
            /\ outer[3] = RLPEmptyList

\* C10's case: genesisBlock() ran on a value with two seal fields and no
\* computed stateRoot
C10_Case ==
    /\ call.op = "genesisBlock"
    /\ pre[call.self].sealFields = 2
    /\ IsZero(pre[call.self].stateRoot)
    /\ ~IsZero(vals[call.self].stateRoot)

=============================================================================
